---- MODULE Spec2Model ----
(***************************************************************************)
(* BeersState (src/src/state/beersState.ts): a MobX store holding a        *)
(* catalog of beers fetched from a remote API, the per-uri fetch status    *)
(* map, the liked-beer id list with its autorun reconciler, the comments   *)
(* map and the upload of both to the user profile.                         *)
(*                                                                         *)
(* JavaScript runs the store on one thread.  An async function runs        *)
(* synchronously up to its first await; every await gives control back.    *)
(* A task below is one pending call of an async method: pc = "fetching"    *)
(* while its transport request is outstanding, pc = "returned" when the    *)
(* awaited promise is settled and the continuation waits in the microtask  *)
(* queue.  Microtasks run before any further event (a user call or the     *)
(* settling of another request), so those steps are guarded by             *)
(* ~microPending.                                                          *)
(***************************************************************************)
EXTENDS Integers, Sequences, FiniteSets, Bags

VARIABLES beers, remainingRequests, selectedBeer, errorText, likedBeerIds,
          commentsMap, isUploading, beersInfo, uriMap, tasks, isAuthenticated,
          thrown

vars == <<beers, remainingRequests, selectedBeer, errorText, likedBeerIds,
          commentsMap, isUploading, beersInfo, uriMap, tasks, isAuthenticated,
          thrown>>

----------------------------------------------------------------------------
(* Bounds of the model.                                                    *)

\* transport requests (catalog, profile and info) outstanding at once that
\* a user call may bring about
MaxOutstanding == 2
\* length of likedBeerIds up to which toggleLikeBeer is explored
MaxLiked == 2
\* length of the list the API answers a GET /beers with
MaxResp == 2
\* pending calls up to which a continuation that starts further calls is explored
MaxTasks == 3

----------------------------------------------------------------------------
(* Values.                                                                 *)

\* ids the API knows and the user asks for
BeerIds == {1, 2}
\* names, as their rank in the order _.sortBy compares them by
BeerNames == {1, 2}
\* IBeer, reduced to the fields the store reads
IBeer == [id : BeerIds, name : BeerNames]

\* null (errorText, beersInfo) and undefined (getBeersApi's optional id)
Null == "null"
Undefined == -1
\* selectedBeer and the destructured [beer]: the empty sequence is null/undefined
NoBeer == <<>>

\* the texts of the errors the store's own code throws
NotFoundText == "Beer not found or currently unavailable!"
NumericText == "Beers can only have numeric ids!"
StatusText == "API returned unexpected response code"
\* the message of an error thrown by fetch() or res.json()
NetworkText == "Failed to fetch"
RefreshErrorText == "refreshBeersInfo error: Failed to fetch"
UploadErrorText == "status: statusText"
\* the text of the error setComment throws to its caller
PreconditionText == "You are not allowed to setComment on beers not within our cache!"

\* value of the x-ratelimit-remaining header of a successful answer
RateLimitValues == {7}

\* the base uri is 0, the uri of one beer is its id
BaseUri == 0
uriOf(id) == IF id = Undefined \/ id = 0 THEN BaseUri ELSE id

----------------------------------------------------------------------------
(* lodash.                                                                 *)

\* _.find(list, { id }): the first element with that id, NoBeer when none
find(list, id) ==
    LET hits == {i \in 1..Len(list) : list[i].id = id}
    IN  IF hits = {} THEN NoBeer
        ELSE <<list[CHOOSE i \in hits : \A j \in hits : i <= j]>>

\* _.includes(list, x)
includes(list, x) == \E i \in 1..Len(list) : list[i] = x

\* _.filter(list, pred) for pred = "the id is in ids"
RECURSIVE filterLiked(_, _)
filterLiked(list, ids) ==
    IF list = <<>> THEN <<>>
    ELSE IF includes(ids, Head(list).id)
         THEN <<Head(list)>> \o filterLiked(Tail(list), ids)
         ELSE filterLiked(Tail(list), ids)

\* _.remove(list, item => item === id): the list without every occurrence
RECURSIVE remove(_, _)
remove(list, id) ==
    IF list = <<>> THEN <<>>
    ELSE IF Head(list) = id THEN remove(Tail(list), id)
         ELSE <<Head(list)>> \o remove(Tail(list), id)

\* _.unionWith(a, b, (x, y) => x.id === y.id): the values of a then b in
\* order, each kept unless an equal one (same id) was kept before
RECURSIVE unionAcc(_, _)
unionAcc(acc, rest) ==
    IF rest = <<>> THEN acc
    ELSE LET h == Head(rest)
         IN  unionAcc(IF \E i \in 1..Len(acc) : acc[i].id = h.id
                      THEN acc ELSE Append(acc, h),
                      Tail(rest))

unionWith(a, b) == unionAcc(<<>>, a \o b)

\* _.sortBy(list, ["name"]): ascending by name, stable
RECURSIVE sortAcc(_, _)
sortAcc(sorted, rest) ==
    IF rest = <<>> THEN sorted
    ELSE LET e == Head(rest)
             k == Cardinality({i \in 1..Len(sorted) : sorted[i].name <= e.name})
         IN  sortAcc(SubSeq(sorted, 1, k) \o <<e>> \o SubSeq(sorted, k + 1, Len(sorted)),
                     Tail(rest))

sortBy(list) == sortAcc(<<>>, list)

\* idFromUrl.toString() is a text: a sequence of characters, a digit being
\* its value and Letter any character that is no digit
Letter == 10
Digits == 0..9
NaN == -2

RECURSIVE leadingDigits(_, _)
leadingDigits(acc, raw) ==
    IF raw = <<>> \/ Head(raw) \notin Digits THEN acc
    ELSE leadingDigits(acc * 10 + Head(raw), Tail(raw))

\* _.parseInt(text): the number the leading digits spell, NaN when the text
\* starts with no digit
parseInt(raw) ==
    IF raw = <<>> \/ Head(raw) \notin Digits THEN NaN
    ELSE leadingDigits(0, raw)

\* _.isFinite(n)
isFinite(n) == n # NaN

----------------------------------------------------------------------------
(* The store as a record, so that a handler is the composition of the      *)
(* calls it makes.  thrown is the error the step threw to its caller: a    *)
(* step starts with none.                                                  *)

cur == [beers |-> beers, remainingRequests |-> remainingRequests,
        selectedBeer |-> selectedBeer, errorText |-> errorText,
        likedBeerIds |-> likedBeerIds, commentsMap |-> commentsMap,
        isUploading |-> isUploading, beersInfo |-> beersInfo,
        uriMap |-> uriMap, tasks |-> tasks, isAuthenticated |-> isAuthenticated,
        thrown |-> Null]

commit(s) ==
    /\ beers' = s.beers
    /\ remainingRequests' = s.remainingRequests
    /\ selectedBeer' = s.selectedBeer
    /\ errorText' = s.errorText
    /\ likedBeerIds' = s.likedBeerIds
    /\ commentsMap' = s.commentsMap
    /\ isUploading' = s.isUploading
    /\ beersInfo' = s.beersInfo
    /\ uriMap' = s.uriMap
    /\ tasks' = s.tasks
    /\ isAuthenticated' = s.isAuthenticated
    /\ thrown' = s.thrown

\* ObservableMap: get (undefined for a missing key), set, delete, clear
mapGet(m, k) == IF k \in DOMAIN m THEN m[k] ELSE Undefined
mapSet(m, k, v) == [x \in DOMAIN m \cup {k} |-> IF x = k THEN v ELSE m[x]]
mapDelete(m, k) == [x \in DOMAIN m \ {k} |-> m[x]]
mapClear == [x \in {} |-> Undefined]

\* the boolean values of uriMap, as numbers beside Undefined
JsTrue == 1
JsFalse == 0

\* a pending call of an async method
Task(kind, id, pc, st, via, res) ==
    [kind |-> kind, id |-> id, uri |-> uriOf(id), pc |-> pc, st |-> st,
     via |-> via, res |-> res]

spawn(s, t) == [s EXCEPT !.tasks = @ (+) SetToBag({t})]
retire(s, t) == [s EXCEPT !.tasks = @ (-) SetToBag({t})]

taskSet(s) == BagToSet(s.tasks)
\* a continuation waits in the microtask queue
microPending(s) == \E t \in taskSet(s) : t.pc = "returned"
\* transport requests outstanding
outstanding(s) ==
    LET waiting == {t \in taskSet(s) : t.pc = "fetching"}
        idx == [t \in waiting |-> s.tasks[t]]
        RECURSIVE sum(_)
        sum(S) == IF S = {} THEN 0
                  ELSE LET x == CHOOSE y \in S : TRUE IN idx[x] + sum(S \ {x})
    IN  sum(waiting)

----------------------------------------------------------------------------
(* Computed values.                                                        *)

\* loading: some uri is marked true, or the profile upload is under way
loading(s) == s.isUploading \/ \E u \in DOMAIN s.uriMap : s.uriMap[u] = JsTrue

\* requestCount: the number of uris marked false
requestCount(s) == Cardinality({u \in DOMAIN s.uriMap : s.uriMap[u] = JsFalse})

\* likedBeers: the beers of the catalog whose id is in likedBeerIds
likedBeers(s) == filterLiked(s.beers, s.likedBeerIds)

\* isLikedBeer(id): a beer with that id is among likedBeers
isLikedBeer(s, id) == find(likedBeers(s), id) # NoBeer

----------------------------------------------------------------------------
(* The handlers: what each does up to its first await, and what its        *)
(* continuation does.                                                      *)

dismissError(s) == [s EXCEPT !.errorText = Null]

\* unionAndSortBeers, were the new beers to come first in the union
unionAndSortNewFirst(s, newBeers) == sortBy(unionWith(newBeers, s.beers))

\* unionAndSortBeers, were the union not sorted
unionUnsorted(s, newBeers) == unionWith(s.beers, newBeers)

\* unionAndSortBeers, were the lists concatenated instead of united
concatAndSort(s, newBeers) == sortBy(s.beers \o newBeers)

\* unionAndSortBeers(newBeers)
unionAndSortBeers(s, newBeers) == sortBy(unionWith(s.beers, newBeers))

\* shortCircuits, were it to test for a request under way
shortCircuitsInFlight(st) == st = JsTrue

\* shortCircuits, were the test missing
shortCircuitsNever(st) == FALSE

\* getBeersApi returns at once on this value of uriMap.get(uri)
shortCircuits(st) == st = JsFalse

\* getBeersApi(id) up to `await fetch(uri)`
getBeersApi(s, kind, id) ==
    LET s1 == dismissError(s)
        uri == uriOf(id)
        st == mapGet(s1.uriMap, uri)
    IN  IF shortCircuits(st)
        THEN spawn(s1, Task(kind, id, "returned", st, "cache", s1.beers))
        ELSE spawn([s1 EXCEPT !.uriMap = mapSet(@, uri, JsTrue)],
                   Task(kind, id, "fetching", st, "transport", <<>>))

\* getBeersApiSettle, were the catch block not to delete the uri
getBeersApiSettleKeepsUri(s, t, answer) ==
    IF answer.ok
    THEN spawn(retire([s EXCEPT !.remainingRequests = answer.rate,
                                !.uriMap = mapSet(@, t.uri, JsFalse)], t),
               [t EXCEPT !.pc = "returned", !.res = answer.body])
    ELSE spawn(retire([s EXCEPT !.errorText = answer.msg], t),
               [t EXCEPT !.pc = "returned", !.via = "error", !.res = <<>>])

\* getBeersApiSettle, were a 200 answer not to mark the uri false
getBeersApiSettleLeavesTrue(s, t, answer) ==
    IF answer.ok
    THEN spawn(retire([s EXCEPT !.remainingRequests = answer.rate], t),
               [t EXCEPT !.pc = "returned", !.res = answer.body])
    ELSE spawn(retire([s EXCEPT !.uriMap = mapDelete(@, t.uri),
                                !.errorText = answer.msg], t),
               [t EXCEPT !.pc = "returned", !.via = "error", !.res = <<>>])

\* getBeersApi from the settling of fetch(uri) to its return: a 200 answer
\* with a body and the rate limit header, or an error with its message
getBeersApiSettle(s, t, answer) ==
    IF answer.ok
    THEN spawn(retire([s EXCEPT !.remainingRequests = answer.rate,
                                !.uriMap = mapSet(@, t.uri, JsFalse)], t),
               [t EXCEPT !.pc = "returned", !.res = answer.body])
    ELSE spawn(retire([s EXCEPT !.uriMap = mapDelete(@, t.uri),
                                !.errorText = answer.msg], t),
               [t EXCEPT !.pc = "returned", !.via = "error", !.res = <<>>])

\* loadBeer, were it not to look the beer up in the catalog first
loadBeerAlwaysFetches(s, kind, id) == getBeersApi(s, kind, id)

\* loadBeer(id) up to its await
loadBeer(s, kind, id) ==
    LET beer == find(s.beers, id)
    IN  IF beer # NoBeer
        THEN spawn(s, Task(kind, id, "returned", Undefined, "found", beer))
        ELSE getBeersApi(s, kind, id)

RECURSIVE loadEach(_, _)
loadEach(s, ids) ==
    IF ids = <<>> THEN s
    ELSE loadEach(loadBeer(s, "loadBeer", Head(ids)), Tail(ids))

\* the autorun, were it to load nothing
autorunIdle(s) == s

\* the autorun: runs after every change of beers or likedBeerIds
autorun(s) ==
    IF Len(s.likedBeerIds) = Len(likedBeers(s)) THEN s
    ELSE loadEach(s, s.likedBeerIds)

\* loadBeersResume, were the answer to replace the catalog
loadBeersReplaces(s, t) ==
    autorun([retire(s, t) EXCEPT !.beers = sortBy(unionWith(<<>>, t.res))])

\* loadBeers after `await this.getBeersApi()`: this.beers is read after the await
loadBeersResume(s, t) ==
    autorun([retire(s, t) EXCEPT !.beers = unionAndSortBeers(s, t.res)])

\* loadBeerResume, were a beer merged only while no error is recorded
loadBeerResumeAllOrNothing(s, t) ==
    LET s1 == retire(s, t)
        beer == IF t.res = <<>> THEN NoBeer ELSE <<Head(t.res)>>
    IN  IF t.via = "found" THEN [s |-> s1, beer |-> t.res, thrown |-> FALSE]
        ELSE IF beer = NoBeer \/ s.errorText # Null
             THEN [s |-> s1, beer |-> NoBeer, thrown |-> TRUE]
        ELSE [s |-> autorun([s1 EXCEPT !.beers = unionAndSortBeers(s1, beer)]),
              beer |-> beer, thrown |-> FALSE]

\* loadBeer after `await this.getBeersApi(id)`: the store, the beer returned
\* and whether it threw
loadBeerResume(s, t) ==
    LET s1 == retire(s, t)
        beer == IF t.res = <<>> THEN NoBeer ELSE <<Head(t.res)>>
    IN  IF t.via = "found" THEN [s |-> s1, beer |-> t.res, thrown |-> FALSE]
        ELSE IF beer = NoBeer THEN [s |-> s1, beer |-> NoBeer, thrown |-> TRUE]
        ELSE [s |-> autorun([s1 EXCEPT !.beers = unionAndSortBeers(s1, beer)]),
              beer |-> beer, thrown |-> FALSE]

\* refreshBeersInfo() up to its await, and after it
refreshBeersInfo(s) == spawn(s, Task("refresh", Undefined, "fetching", Undefined, "transport", <<>>))

refreshBeersInfoSettle(s, t, ok) ==
    IF ok THEN [retire(s, t) EXCEPT !.beersInfo = "info"]
    ELSE [retire(s, t) EXCEPT !.errorText = RefreshErrorText]

\* selectBeer(idFromUrl) up to `await this.loadBeer(id)`
selectBeer(s, raw) ==
    LET s1 == dismissError(refreshBeersInfo(s))
        id == parseInt(raw)
    IN  IF ~isFinite(id) THEN [s1 EXCEPT !.errorText = NumericText]
        ELSE loadBeer(s1, "selectBeer", id)

\* selectBeer after the await
selectBeerResume(s, t) ==
    LET r == loadBeerResume(s, t)
    IN  IF r.thrown THEN [r.s EXCEPT !.errorText = NotFoundText]
        ELSE [r.s EXCEPT !.selectedBeer = r.beer]

\* uploadStateToUserProfile() up to its await, and after it
uploadStateToUserProfile(s) ==
    IF s.isAuthenticated = FALSE THEN s
    ELSE spawn([s EXCEPT !.isUploading = TRUE],
               Task("upload", Undefined, "fetching", Undefined, "transport", <<>>))

\* uploadStateToUserProfileSettle, were the flag cleared inside the try block
uploadSettleFlagInsideTry(s, t, answer) ==
    IF answer.ok THEN refreshBeersInfo([retire(s, t) EXCEPT !.isUploading = FALSE])
    ELSE refreshBeersInfo([retire(s, t) EXCEPT !.errorText = answer.msg])

uploadStateToUserProfileSettle(s, t, answer) ==
    LET s1 == IF answer.ok THEN retire(s, t)
              ELSE [retire(s, t) EXCEPT !.errorText = answer.msg]
    IN  refreshBeersInfo([s1 EXCEPT !.isUploading = FALSE])

\* toggleLikeBeer(id)
toggleLikeBeer(s, id) ==
    LET s1 == IF ~isLikedBeer(s, id)
              THEN [s EXCEPT !.likedBeerIds = Append(@, id)]
              ELSE [s EXCEPT !.likedBeerIds = remove(@, id)]
    IN  autorun(uploadStateToUserProfile(s1))

\* setComment, were it not to look the beer up in the catalog first
setCommentUnchecked(s, id, comment) ==
    LET s1 == IF comment # "" /\ comment # Null
              THEN [s EXCEPT !.commentsMap = mapSet(@, id, comment)]
              ELSE [s EXCEPT !.commentsMap = mapDelete(@, id)]
    IN  uploadStateToUserProfile(s1)

\* setComment(id, comment): throws for an id the catalog holds no beer of
setComment(s, id, comment) ==
    IF find(s.beers, id) = NoBeer THEN [s EXCEPT !.thrown = PreconditionText]
    ELSE LET s1 == IF comment # "" /\ comment # Null
                   THEN [s EXCEPT !.commentsMap = mapSet(@, id, comment)]
                   ELSE [s EXCEPT !.commentsMap = mapDelete(@, id)]
         IN  uploadStateToUserProfile(s1)

\* wipe, were it to clear likedBeerIds and commentsMap too
wipeLikesAndComments(s) ==
    autorun([s EXCEPT !.beers = <<>>, !.uriMap = mapClear, !.remainingRequests = 0,
                      !.likedBeerIds = <<>>, !.commentsMap = mapClear])

\* wipe(): the autorun runs when the action ends, beers having changed
wipe(s) ==
    autorun([s EXCEPT !.beers = <<>>, !.uriMap = mapClear, !.remainingRequests = 0])

----------------------------------------------------------------------------
(* The inputs.                                                             *)

\* texts select is called with: "1", "2", "0", "x", "1x"
RawIds == {<<1>>, <<2>>, <<0>>, <<Letter>>, <<1, Letter>>}

\* comments setComment is called with
Comments == {"", "tasty"}

RECURSIVE seqsUpTo(_, _)
seqsUpTo(S, n) ==
    IF n = 0 THEN {<<>>}
    ELSE LET shorter == seqsUpTo(S, n - 1)
         IN  shorter \cup {Append(q, x) : q \in shorter, x \in S}

\* the bodies the API may answer a request of uri with: any list of beers
\* for the base uri, the beer of that id or no beer for the uri of one beer
bodies(uri) ==
    IF uri = BaseUri THEN seqsUpTo(IBeer, MaxResp)
    ELSE {<<>>} \cup {<<b>> : b \in {x \in IBeer : x.id = uri}}

\* what a request to the API may end with
answers(uri) ==
    {[ok |-> TRUE, body |-> b, rate |-> r, msg |-> Null] :
        b \in bodies(uri), r \in RateLimitValues}
    \cup {[ok |-> FALSE, body |-> <<>>, rate |-> 0, msg |-> m] :
        m \in {StatusText, NetworkText}}

\* what the PATCH of the profile may end with
uploadAnswers ==
    {[ok |-> TRUE, msg |-> Null], [ok |-> FALSE, msg |-> UploadErrorText]}

\* a user call is explored while it stays within the bounds
withinBounds(s) ==
    /\ outstanding(s) <= MaxOutstanding
    /\ Len(s.likedBeerIds) <= MaxLiked

----------------------------------------------------------------------------
(* The specification.                                                      *)

\* the store as constructed, authState as given
start(auth) ==
    /\ beers = <<>>
    /\ remainingRequests = 0
    /\ selectedBeer = NoBeer
    /\ errorText = Null
    /\ likedBeerIds = <<>>
    /\ commentsMap = mapClear
    /\ isUploading = FALSE
    /\ beersInfo = Null
    /\ uriMap = mapClear
    /\ tasks = EmptyBag
    /\ isAuthenticated = auth
    /\ thrown = Null

\* a session of a user who is not logged in
Init == start(FALSE)

\* a session of a user who is logged in
InitAuthenticated == start(TRUE)

\* a call by the user interface happens when no microtask is pending; it
\* is explored while it stays within the bounds
LoadBeers ==
    /\ ~microPending(cur)
    /\ LET s == getBeersApi(cur, "loadBeers", Undefined)
       IN  withinBounds(s) /\ commit(s)

LoadBeer ==
    /\ ~microPending(cur)
    /\ \E id \in BeerIds :
        LET s == loadBeer(cur, "loadBeer", id)
        IN  withinBounds(s) /\ commit(s)

SelectBeer ==
    /\ ~microPending(cur)
    /\ \E raw \in RawIds :
        LET s == selectBeer(cur, raw)
        IN  withinBounds(s) /\ commit(s)

ToggleLikeBeer ==
    /\ ~microPending(cur)
    /\ \E id \in BeerIds :
        LET s == toggleLikeBeer(cur, id)
        IN  withinBounds(s) /\ commit(s)

SetComment ==
    /\ ~microPending(cur)
    /\ \E id \in BeerIds, comment \in Comments :
        LET s == setComment(cur, id, comment)
        IN  withinBounds(s) /\ commit(s)

DeselectBeer ==
    /\ ~microPending(cur)
    /\ commit([cur EXCEPT !.selectedBeer = NoBeer])

DismissError ==
    /\ ~microPending(cur)
    /\ commit(dismissError(cur))

Wipe ==
    /\ ~microPending(cur)
    /\ LET s == wipe(cur)
       IN  withinBounds(s) /\ commit(s)

\* the transport settles the request of a pending getBeersApi
FetchSettle ==
    /\ ~microPending(cur)
    /\ \E t \in taskSet(cur) :
        /\ t.pc = "fetching"
        /\ t.kind \in {"loadBeers", "loadBeer", "selectBeer"}
        /\ \E answer \in answers(t.uri) : commit(getBeersApiSettle(cur, t, answer))

UploadSettle ==
    /\ ~microPending(cur)
    /\ \E t \in taskSet(cur) :
        /\ t.pc = "fetching"
        /\ t.kind = "upload"
        /\ \E answer \in uploadAnswers :
            commit(uploadStateToUserProfileSettle(cur, t, answer))

RefreshSettle ==
    /\ ~microPending(cur)
    /\ \E t \in taskSet(cur) :
        /\ t.pc = "fetching"
        /\ t.kind = "refresh"
        /\ \E ok \in BOOLEAN : commit(refreshBeersInfoSettle(cur, t, ok))

\* a continuation runs from the microtask queue
Resume ==
    \E t \in taskSet(cur) :
        /\ t.pc = "returned"
        /\ LET s == CASE t.kind = "loadBeers" -> loadBeersResume(cur, t)
                      [] t.kind = "loadBeer" -> loadBeerResume(cur, t).s
                      [] t.kind = "selectBeer" -> selectBeerResume(cur, t)
           IN  BagCardinality(s.tasks) <= MaxTasks /\ commit(s)

\* the catalog and the autorun that loads the liked beers
Next ==
    \/ LoadBeers
    \/ LoadBeer
    \/ ToggleLikeBeer
    \/ Wipe
    \/ FetchSettle
    \/ Resume

Spec == Init /\ [][Next]_vars

\* the catalog and the selection
NextSelect ==
    \/ LoadBeers
    \/ LoadBeer
    \/ SelectBeer
    \/ DeselectBeer
    \/ DismissError
    \/ Wipe
    \/ FetchSettle
    \/ RefreshSettle
    \/ Resume

SpecSelect == Init /\ [][NextSelect]_vars

\* likes and comments of a logged-in user, uploaded to the profile
NextSync ==
    \/ LoadBeer
    \/ ToggleLikeBeer
    \/ SetComment
    \/ Wipe
    \/ FetchSettle
    \/ UploadSettle
    \/ RefreshSettle
    \/ Resume

SpecSync == InitAuthenticated /\ [][NextSync]_vars

\* comments of a user, logged in or not, and their upload to the profile
InitEither == Init \/ InitAuthenticated

NextPush ==
    \/ LoadBeer
    \/ SetComment
    \/ FetchSettle
    \/ UploadSettle
    \/ RefreshSettle
    \/ Resume

SpecPush == InitEither /\ [][NextPush]_vars

----------------------------------------------------------------------------
(* Properties.                                                             *)

\* the calls that go through getBeersApi
fetchKinds == {"loadBeers", "loadBeer", "selectBeer"}
\* the pending calls that reached getBeersApi (loadBeer found no beer)
fetchTasks == {t \in taskSet(cur) : t.kind \in fetchKinds /\ t.via # "found"}
\* transport requests outstanding for a uri
fetchingOn(uri) ==
    LET waiting == {x \in fetchTasks : x.pc = "fetching" /\ x.uri = uri}
        RECURSIVE sum(_)
        sum(S) == IF S = {} THEN 0
                  ELSE LET x == CHOOSE y \in S : TRUE IN CopiesIn(x, tasks) + sum(S \ {x})
    IN  sum(waiting)
idsOf(list) == {list[i].id : i \in 1..Len(list)}
uris == {uriOf(id) : id \in BeerIds \cup {Undefined}}

\* C1, as claimed: calls of getBeersApi for one uri that overlap make one
\* transport request; the call that finds the uri marked true returns at once
C1_OneRequestPerUri ==
    /\ \A u \in uris : fetchingOn(u) <= 1
    /\ \A t \in fetchTasks : t.st = JsTrue => t.via = "cache"

\* C1, amended: a call of getBeersApi that finds its uri marked true (a
\* request for it is outstanding) does not return at once: it makes a
\* transport request of its own, so two overlapping calls make two requests
C1_OverlappingCallsBothFetch ==
    \A t \in fetchTasks : t.st = JsTrue => t.via \in {"transport", "error"}

\* C1: two requests for one uri are outstanding, the second made by a call
\* that found the uri marked true
C1_Witness ==
    \E t \in fetchTasks : t.pc = "fetching" /\ t.st = JsTrue /\ fetchingOn(t.uri) >= 2

\* C2, as claimed: likedBeerIds holds no id more than once
C2_NoDuplicateLikes ==
    \A i, j \in 1..Len(likedBeerIds) : likedBeerIds[i] = likedBeerIds[j] => i = j

\* C3, as claimed: a step that changes likedBeerIds (a toggleLikeBeer(id))
\* turns the membership of an id into its negation
C3_ToggleFlipsMembership ==
    [][likedBeerIds' # likedBeerIds =>
          \E id \in BeerIds : includes(likedBeerIds', id) # includes(likedBeerIds, id)]_vars

\* the continuations about to merge a list into the catalog: loadBeers
\* merges the list getBeersApi returned, loadBeer its first beer
mergesPending ==
    {t \in fetchTasks : t.pc = "returned" /\ (t.kind = "loadBeers" \/ t.res # <<>>)}
incoming(t) == IF t.kind = "loadBeers" THEN t.res ELSE <<Head(t.res)>>
\* merge(existing, incoming)
merge(existing, newBeers) == unionAndSortBeers([cur EXCEPT !.beers = existing], newBeers)

\* C4, as claimed: for an id in the catalog and in the incoming list, the
\* merged catalog holds the incoming beer (the first of that id)
C4_IncomingWins ==
    \A t \in mergesPending :
        \A id \in idsOf(beers) \cap idsOf(incoming(t)) :
            find(merge(beers, incoming(t)), id) = find(incoming(t), id)

\* C4, amended: for an id in the catalog and in the incoming list, the
\* merged catalog holds the beer the catalog held: the existing entry wins
C4_ExistingWins ==
    \A t \in mergesPending :
        \A id \in idsOf(beers) \cap idsOf(incoming(t)) :
            find(merge(beers, incoming(t)), id) = find(beers, id)

\* C4: a list is about to be merged that holds a beer of the catalog under
\* another name
C4_Witness ==
    \E t \in mergesPending :
        \E id \in idsOf(beers) \cap idsOf(incoming(t)) : find(incoming(t), id) # find(beers, id)

\* C5: no two beers of the catalog share an id, and the names do not decrease
C5_CatalogCanonical ==
    /\ \A i, j \in 1..Len(beers) : beers[i].id = beers[j].id => i = j
    /\ \A i, j \in 1..Len(beers) : i < j => beers[i].name <= beers[j].name

\* C5: the catalog holds two beers of different names, and a list of two
\* beers that is not in the order of their names is about to be merged
C5_Witness ==
    /\ Len(beers) = 2
    /\ beers[1].name < beers[2].name
    /\ \E t \in mergesPending : Len(incoming(t)) = 2 /\ merge(<<>>, incoming(t)) # incoming(t)

\* C6: merging a list into the catalog a second time changes nothing,
\* for every catalog the store reaches and every list the API answers with
\* (lists that repeat an id or hold ids of the catalog among them)
C6_MergeIdempotent ==
    \A t \in mergesPending :
        merge(merge(beers, incoming(t)), incoming(t)) = merge(beers, incoming(t))

\* C6: a list is about to be merged into a catalog that holds one of its
\* beers and lacks another
C6_Witness ==
    \E t \in mergesPending :
        /\ idsOf(beers) \cap idsOf(incoming(t)) # {}
        /\ idsOf(incoming(t)) \ idsOf(beers) # {}
        /\ merge(beers, incoming(t)) # beers

\* the calls of getBeersApi whose request failed and that have not resumed
failedTasks == {t \in fetchTasks : t.via = "error"}

\* C7: when getBeersApi returns from a failed request its uri is in no state
\* (not in uriMap), it returns the empty list, errorText is the error's
\* message, and a call of getBeersApi for that uri made now marks the uri
\* true and makes a transport request
C7_FailedFetchRetryable ==
    \A t \in failedTasks :
        /\ t.pc = "returned"
        /\ t.res = <<>>
        /\ t.uri \notin DOMAIN uriMap
        /\ errorText \in {StatusText, NetworkText}
        /\ LET s == getBeersApi(cur, t.kind, t.id)
           IN  /\ mapGet(s.uriMap, t.uri) = JsTrue
               /\ outstanding(s) = outstanding(cur) + 1
               /\ ~ \E n \in taskSet(s) : n.via = "cache"

\* C7: the request of a loadBeer failed with a network error
C7_Witness ==
    \E t \in failedTasks : t.kind = "loadBeer" /\ errorText = NetworkText

\* C8, as claimed: a call of getBeersApi returns at once only when it finds
\* its uri marked true; one that finds it absent or marked false (answered)
\* makes a transport request, so a loadBeers after an answered one does
C8_DoneFetchesAgain ==
    \A t \in fetchTasks : t.via = "cache" => t.st = JsTrue

\* C8, amended: a call of getBeersApi returns at once only when its uri is
\* marked false (answered): one that finds it absent or marked true makes a
\* transport request, and a loadBeers called after an earlier one succeeded
\* makes none and merges the catalog as it is, which leaves it unchanged
C8_ShortCircuitOnlyWhenDone ==
    /\ \A t \in fetchTasks : (t.via = "cache") <=> (t.st = JsFalse)
    /\ \A t \in fetchTasks :
        t.via = "cache" /\ t.kind = "loadBeers" =>
            /\ t.pc = "returned"
            /\ t.res = beers
            /\ merge(beers, t.res) = beers

\* C8: a loadBeers called with the base uri marked false returned the
\* catalog, which holds a beer
C8_Witness ==
    \E t \in fetchTasks :
        t.via = "cache" /\ t.kind = "loadBeers" /\ t.res # <<>> /\ fetchingOn(BaseUri) = 0

\* C9: in every state, loadBeer(id) for an id in the catalog makes no
\* transport request, leaves beers and uriMap (and errorText) as they are
\* and returns the beer of that id the catalog holds
C9_LoadBeerCached ==
    \A id \in BeerIds :
        find(beers, id) # NoBeer =>
            LET s == loadBeer(cur, "loadBeer", id)
                t == Task("loadBeer", id, "returned", Undefined, "found", find(beers, id))
            IN  /\ s.beers = beers
                /\ s.uriMap = uriMap
                /\ s.errorText = errorText
                /\ outstanding(s) = outstanding(cur)
                /\ s.tasks = tasks (+) SetToBag({t})
                /\ Head(t.res).id = id

\* C9: loadBeer was called for an id in the catalog while the uri of that id
\* was in no state
C9_Witness ==
    \E t \in taskSet(cur) :
        /\ t.via = "found"
        /\ t.res = find(beers, t.id)
        /\ t.uri \notin DOMAIN uriMap

\* a pending call leaves the set of pending calls in this step
resumes(t) == CopiesIn(t, tasks') < CopiesIn(t, tasks)

\* C10, as claimed: when the loadBeer of a selectBeer(rawId) comes back with
\* no beer of the id asked for, selectedBeer stays as it was and errorText
\* is the not-found message; when rawId is no number, selectedBeer stays as
\* it was and errorText names the argument
C10_SelectFailureKeepsSelection ==
    [][/\ \A t \in taskSet(cur) :
            (t.kind = "selectBeer" /\ t.pc = "returned" /\ resumes(t)
                /\ find(t.res, t.id) = NoBeer)
            => selectedBeer' = selectedBeer /\ errorText' = NotFoundText
       /\ errorText' = NumericText => selectedBeer' = selectedBeer]_vars

\* C11: in every state, setComment(id, comment) for an id the catalog holds
\* no beer of throws the precondition error to its caller and changes
\* nothing: commentsMap stays, no upload is started (the pending calls
\* stay), isUploading stays, and so does every other field
C11_SetCommentAbsentThrows ==
    \A id \in BeerIds, comment \in Comments :
        find(beers, id) = NoBeer =>
            LET s == setComment(cur, id, comment)
            IN  /\ s.thrown = PreconditionText
                /\ s.commentsMap = commentsMap
                /\ s.tasks = tasks
                /\ s.isUploading = isUploading
                /\ [s EXCEPT !.thrown = Null] = cur

\* C11: setComment threw for a logged-in user whose comments map holds a
\* comment, the catalog being empty and no upload under way
C11_Witness ==
    /\ thrown = PreconditionText
    /\ isAuthenticated
    /\ beers = <<>>
    /\ commentsMap # mapClear
    /\ ~isUploading

\* every liked id has a beer in the catalog
reconciled == \A i \in 1..Len(likedBeerIds) : find(beers, likedBeerIds[i]) # NoBeer
\* transport requests of loadBeer(id) outstanding in the store s
loadBeerFetches(s, id) ==
    LET waiting == {t \in taskSet(s) : t.kind = "loadBeer" /\ t.pc = "fetching" /\ t.id = id}
        RECURSIVE sum(_)
        sum(S) == IF S = {} THEN 0
                  ELSE LET x == CHOOSE y \in S : TRUE IN CopiesIn(x, s.tasks) + sum(S \ {x})
    IN  sum(waiting)

\* C12: a pass of the autorun over an empty catalog makes a transport
\* request for every liked id (whose uri is not marked answered); and when
\* every liked id has a beer in the catalog, the catalog holds exactly one
\* beer of each liked id and a pass of the autorun makes no transport
\* request and changes nothing in uriMap or the catalog
C12_Reconciliation ==
    LET s == autorun(cur)
    IN  /\ beers = <<>> =>
            \A i \in 1..Len(likedBeerIds) :
                mapGet(uriMap, likedBeerIds[i]) # JsFalse =>
                    loadBeerFetches(s, likedBeerIds[i]) > loadBeerFetches(cur, likedBeerIds[i])
        /\ reconciled =>
            /\ \A i \in 1..Len(likedBeerIds) :
                  Cardinality({j \in 1..Len(beers) : beers[j].id = likedBeerIds[i]}) = 1
            /\ outstanding(s) = outstanding(cur)
            /\ s.uriMap = uriMap
            /\ s.beers = beers
            /\ \A t \in taskSet(s) : CopiesIn(t, s.tasks) > CopiesIn(t, tasks) => t.via = "found"

\* C12: two ids are liked, the beer of each was fetched by its own uri and
\* is in the catalog, and no call is pending
C12_Witness ==
    /\ Len(likedBeerIds) = 2
    /\ likedBeerIds[1] # likedBeerIds[2]
    /\ reconciled
    /\ \A i \in 1..2 : mapGet(uriMap, likedBeerIds[i]) = JsFalse
    /\ BaseUri \notin DOMAIN uriMap
    /\ tasks = EmptyBag

\* the ids of likedBeerIds
likedIds == {likedBeerIds[i] : i \in 1..Len(likedBeerIds)}

\* C13, as claimed: a wipe() leaves beers empty, uriMap empty and
\* remainingRequests 0, and likedBeerIds and commentsMap as they were
C13_WipeLeavesUriMapEmpty ==
    [][Wipe => /\ beers' = <<>>
               /\ uriMap' = mapClear
               /\ remainingRequests' = 0
               /\ likedBeerIds' = likedBeerIds
               /\ commentsMap' = commentsMap]_vars

\* C13, amended: a wipe() leaves beers empty and remainingRequests 0, and
\* likedBeerIds and commentsMap as they were; uriMap holds no uri marked
\* answered, and holds exactly the uris of the liked ids, marked true: the
\* autorun, run as the action ends, requests every liked beer again (so
\* uriMap is empty exactly when likedBeerIds is)
C13_WipeRestartsLikedFetches ==
    [][Wipe => /\ beers' = <<>>
               /\ remainingRequests' = 0
               /\ likedBeerIds' = likedBeerIds
               /\ commentsMap' = commentsMap
               /\ DOMAIN uriMap' = likedIds
               /\ \A u \in DOMAIN uriMap' : uriMap'[u] = JsTrue]_vars

\* C13: after a wipe(): the catalog is empty though a beer was commented
\* (it was in the catalog), a liked id is requested again, nothing in
\* uriMap is marked answered and remainingRequests is 0
C13_Witness ==
    /\ beers = <<>>
    /\ remainingRequests = 0
    /\ commentsMap # mapClear
    /\ likedBeerIds # <<>>
    /\ DOMAIN uriMap = likedIds
    /\ \A u \in DOMAIN uriMap : uriMap[u] = JsTrue

\* pending calls of a kind whose transport request is outstanding in s
fetchingOfKind(s, kind) ==
    LET waiting == {t \in taskSet(s) : t.kind = kind /\ t.pc = "fetching"}
        RECURSIVE sum(_)
        sum(S) == IF S = {} THEN 0
                  ELSE LET x == CHOOSE y \in S : TRUE IN CopiesIn(x, s.tasks) + sum(S \ {x})
    IN  sum(waiting)

\* C14: uploadStateToUserProfile(), as setComment calls it: for a user not
\* logged in it makes no transport request and leaves isUploading alone;
\* for a user logged in it sets isUploading and makes one request; when the
\* request settles, with success or not, isUploading is cleared and one
\* refreshBeersInfo is started, nothing is thrown, and errorText is the
\* error's message after a failure and untouched after a success; and
\* isUploading is never left set with no upload outstanding, so it is
\* cleared once the transport has settled the uploads
C14_Push ==
    /\ [][SetComment /\ thrown' = Null =>
            IF isAuthenticated
            THEN /\ isUploading'
                 /\ fetchingOfKind(cur, "upload")' = fetchingOfKind(cur, "upload") + 1
            ELSE /\ isUploading' = isUploading
                 /\ tasks' = tasks]_vars
    /\ [](\A t \in taskSet(cur) : \A answer \in uploadAnswers :
            t.kind = "upload" =>
                LET s == uploadStateToUserProfileSettle(cur, t, answer)
                IN  /\ ~s.isUploading
                    /\ fetchingOfKind(s, "refresh") = fetchingOfKind(cur, "refresh") + 1
                    /\ fetchingOfKind(s, "upload") = fetchingOfKind(cur, "upload") - 1
                    /\ s.thrown = Null
                    /\ s.errorText = IF answer.ok THEN errorText ELSE answer.msg)
    /\ [](isUploading => fetchingOfKind(cur, "upload") >= 1)

\* C14: the upload of a logged-in user failed: isUploading is cleared, the
\* error is in errorText and a refreshBeersInfo is under way
C14_Witness ==
    /\ isAuthenticated
    /\ ~isUploading
    /\ errorText = UploadErrorText
    /\ fetchingOfKind(cur, "refresh") >= 1
    /\ fetchingOfKind(cur, "upload") = 0

\* C15: in every step that is no wipe(), the ids of the catalog after the
\* step include the ids of the catalog before it: the continuation of a
\* loadBeers or loadBeer, in whatever order the requests settle and
\* whether they fail or not, drops no beer
C15_CatalogGrows ==
    [][Wipe \/ idsOf(beers) \subseteq idsOf(beers')]_vars

\* C15: a call of getBeersApi made while another request for its uri was
\* outstanding is about to merge its answer, which lacks a beer the catalog
\* holds and brings one the catalog lacks
C15_Witness ==
    \E t \in mergesPending :
        /\ t.st = JsTrue
        /\ idsOf(beers) \ idsOf(incoming(t)) # {}
        /\ idsOf(incoming(t)) \ idsOf(beers) # {}

\* C16, as claimed, and only for the states in which no continuation is
\* pending: when the uri of a beer id is marked answered (false), the
\* catalog holds a beer of that id
C16_DoneIsInCatalog ==
    ~microPending(cur) =>
        \A id \in BeerIds : mapGet(uriMap, id) = JsFalse => find(beers, id) # NoBeer

\* C17: a uri is marked true (in flight) only while a transport request for
\* it is outstanding, whatever calls overlapped and whether a wipe() came in
\* between; and the settling of a request leaves its uri marked false after
\* a 200 answer and out of uriMap after a failure, never marked true
C17_NoStuckInFlight ==
    /\ \A u \in DOMAIN uriMap : uriMap[u] = JsTrue => fetchingOn(u) >= 1
    /\ \A t \in fetchTasks :
        t.pc = "fetching" =>
            \A answer \in answers(t.uri) :
                mapGet(getBeersApiSettle(cur, t, answer).uriMap, t.uri)
                    = IF answer.ok THEN JsFalse ELSE Undefined

\* C17: a request is outstanding for a uri that is no longer in uriMap (a
\* wipe() or the failure of an overlapping request took it out) while
\* another uri is marked true
C17_Witness ==
    /\ \E t \in fetchTasks : t.pc = "fetching" /\ t.uri \notin DOMAIN uriMap
    /\ \E u \in DOMAIN uriMap : uriMap[u] = JsTrue

\* the pending calls other than those of own are the same in s as now
siblingsKept(s, own) ==
    \A u \in (taskSet(cur) \cup taskSet(s)) \ own : CopiesIn(u, s.tasks) = CopiesIn(u, tasks)

\* C18: the failure of the request of one loadBeer leaves every other
\* pending call as it is, records the message in errorText and changes no
\* beer; the continuation of the failed loadBeer throws and touches
\* nothing else; and the continuation of a loadBeer whose request brought a
\* beer merges that beer into the catalog, whether or not a sibling failed
\* (errorText is set)
C18_FanOutPartial ==
    \A t \in fetchTasks :
        t.kind = "loadBeer" =>
            /\ t.pc = "fetching" =>
                \A answer \in answers(t.uri) :
                    ~answer.ok =>
                        LET s == getBeersApiSettle(cur, t, answer)
                            failed == [t EXCEPT !.pc = "returned", !.via = "error", !.res = <<>>]
                        IN  /\ siblingsKept(s, {t, failed})
                            /\ s.beers = beers
                            /\ s.errorText = answer.msg
                            /\ s.thrown = Null
            /\ t.pc = "returned" /\ t.via = "error" =>
                LET r == loadBeerResume(cur, t)
                IN  /\ r.thrown
                    /\ siblingsKept(r.s, {t})
                    /\ r.s.beers = beers
                    /\ r.s.errorText = errorText
            /\ t.pc = "returned" /\ t.via = "transport" /\ t.res # <<>> =>
                LET r == loadBeerResume(cur, t)
                IN  /\ ~r.thrown
                    /\ find(r.s.beers, t.id) # NoBeer
                    /\ idsOf(beers) \subseteq idsOf(r.s.beers)

\* C18: two liked ids were absent from the catalog; the request for one
\* failed (its uri is out of uriMap, the message is in errorText) and the
\* request for the other has brought its beer, which is about to be merged
C18_Witness ==
    /\ Len(likedBeerIds) = 2
    /\ likedBeerIds[1] # likedBeerIds[2]
    /\ beers = <<>>
    /\ errorText \in {StatusText, NetworkText}
    /\ \E t \in mergesPending :
        /\ t.kind = "loadBeer" /\ t.via = "transport" /\ t.id \in likedIds
        /\ \E id \in likedIds \ {t.id} : id \notin DOMAIN uriMap

\* C19, as claimed: whenever loadBeer(id), called by the user, the autorun
\* or selectBeer, returns a beer, the beer's id is id (so the beer
\* selectBeer puts in selectedBeer has the id parsed from its argument)
C19_LoadBeerReturnsId ==
    \A t \in taskSet(cur) :
        t.kind \in {"loadBeer", "selectBeer"} /\ t.pc = "returned" =>
            LET r == loadBeerResume(cur, t)
            IN  ~r.thrown =>
                    /\ Head(r.beer).id = t.id
                    /\ t.kind = "selectBeer" =>
                          Head(selectBeerResume(cur, t).selectedBeer).id = t.id

\* C20, as claimed: while a transport request of getBeersApi or of the
\* profile upload is outstanding, loading is true
C20_OutstandingMeansLoading ==
    (\E t \in taskSet(cur) : t.pc = "fetching" /\ t.kind \in fetchKinds \cup {"upload"})
        => loading(cur)

====
